---- MODULE Spec2Model ----
(***************************************************************************)
(* Model of serial_samples.py: the line framer that reads bytes from a     *)
(* serial handle.  SkipUntilNewLine synchronises to a line boundary,       *)
(* check_incomplete_line accumulates one line byte by byte with a deadline *)
(* fixed at the first read, and the (second, shadowing) SerialLines        *)
(* generator turns its results into yielded records.                       *)
(*                                                                         *)
(* Bytes are their integer values.  The handle is seen through stream,     *)
(* the bytes read from it so far; what a read returns next is the device's *)
(* choice.  A read may return fewer bytes than asked for, or none (a read  *)
(* that timed out at the transport level).  The device sends at most       *)
(* MaxStream bytes in a session: after that it is silent and every read    *)
(* returns nothing.                                                        *)
(***************************************************************************)
EXTENDS Integers, Sequences, FiniteSets, TLC

\* ---------------------------------------------------------------- bounds
MaxStream == 4
MaxLineLen == 3
MaxTimeout == 2
MaxStep == 1

\* The clock runs far enough for the longest timeout to expire.
MaxTime == MaxTimeout + 1

\* ------------------------------------------------------------- constants
NL == 10
SP == 32
ChunkSize == 4096
None == -1

\* The bytes the device sends: newline, space, and the letter a standing
\* for every byte that is neither a newline nor whitespace.
Bytes == {NL, SP, 97}
Whitespace == {9, 10, 11, 12, 13, 32}

VARIABLES
    stream,          \* the bytes read from the handle so far, in order
    max_line_length, \* argument of SerialLines
    timeout,         \* argument of SerialLines
    phase,           \* where the generator is: "skip", "acc", "yielded", "raised", "returned"
    line,            \* check_incomplete_line: the local buffer
    end_time,        \* check_incomplete_line: the local deadline, None when unset
    now,             \* the latest clock reading (time.time()), measured from the
                     \* reading that set end_time in the current call; 0 before it
    yielded,         \* the records yielded so far, in order
    result,          \* what check_incomplete_line returned in the latest loop iteration
    exit,            \* by which path it returned: "newline", "timeout" or "length";
                     \* "none" when the latest iteration did not return
    warned,          \* the line of the "Dismissing incomplete line" warning, if the
                     \* latest iteration logged it
    timedOut,        \* that warning was logged at least once
    lastByteAt,      \* when the latest byte of the accumulation in progress arrived
    gapsOk,          \* no two consecutive bytes of the accumulation in progress, or of
                     \* the one just dismissed, arrived timeout or more apart
    late             \* the latest iteration returned with the clock at or past the
                     \* deadline

vars == <<stream, max_line_length, timeout, phase, line, end_time, now,
          yielded, result, exit, warned, timedOut, lastByteAt, gapsOk, late>>

\* ------------------------------------------------------- pure operations
Min(a, b) == IF a < b THEN a ELSE b

\* bytes.endswith(b"\n")
EndsWithNL(s) == Len(s) > 0 /\ s[Len(s)] = NL

\* A strip that removes the line terminator only.
rstripNewline(s) == IF EndsWithNL(s) THEN SubSeq(s, 1, Len(s) - 1) ELSE s

\* bytes.rstrip(): removes trailing ASCII whitespace, nothing else
RECURSIVE rstrip(_)
rstrip(s) ==
    IF Len(s) > 0 /\ s[Len(s)] \in Whitespace
    THEN rstrip(SubSeq(s, 1, Len(s) - 1))
    ELSE s

\* The sequences over S of length at most n.
SeqsUpTo(S, n) == UNION {[1 .. k -> S] : k \in 0 .. n}

\* A read that does not stop at a newline.
ReadlineToSize(size, room) == SeqsUpTo(Bytes, Min(size, room))

\* handle.readline(size) when the device will send at most room more bytes:
\* the chunks the call can return.  A chunk holds at most size bytes and
\* stops after its first newline; it may be shorter (also empty) when the
\* source has no more bytes for now, and then it has no newline at all.
Readline(size, room) ==
    LET n == Min(size, room)
    IN  SeqsUpTo(Bytes \ {NL}, n)
        \cup {Append(c, NL) : c \in SeqsUpTo(Bytes \ {NL}, n - 1)}

\* handle.read(1) when the device will send at most room more bytes: one
\* byte, or nothing.
ReadOne(room) == {<< >>} \cup (IF room > 0 THEN {<<b>> : b \in Bytes} ELSE {})

\* How many more bytes the device can send.
Room == MaxStream - Len(stream)

\* The values check_incomplete_line can return.
NoLine == [none |-> TRUE, bytes |-> << >>]
Line(b) == [none |-> FALSE, bytes |-> b]

\* ------------------------------------------------- check_incomplete_line
\* A loop that stops one byte early.
LoopGuardStopsEarly(l, maxlen) == Len(l) + 1 < maxlen

\* A loop that goes round once more when the buffer is already full.
LoopGuardLate(l, maxlen) == Len(l) <= maxlen

\* while len(line) < max_line_length
LoopGuard(l, maxlen) == Len(l) < maxlen

\* A deadline that every read pushes back.
DeadlineExtended(e, t, tmo) == t + tmo

\* if end_time is None: end_time = time.time() + timeout
\* (t is the clock reading of that time.time() call)
DeadlineAfterRead(e, t, tmo) == IF e = None THEN t + tmo ELSE e

\* A deadline that has passed only when the clock is beyond it.
ExpiredStrict(t, e) == t > e

\* time.time() >= end_time
Expired(t, e) == t >= e

\* What the function returns when the while loop ends without a return
\* statement: Python's implicit None.
FallThrough(l) == NoLine

\* A loop body that compares the clock with the deadline only after a read
\* that returned a byte.
LoopBodyGated(l, e, char, t1, t2, tmo, maxlen) ==
    LET e1 == DeadlineAfterRead(e, t1, tmo)
        l1 == l \o char
    IN  IF char = <<NL>>
        THEN [returns |-> TRUE, value |-> Line(l1), exit |-> "newline",
              line |-> l1, end_time |-> e1]
        ELSE IF char # << >> /\ Expired(t2, e1)
        THEN [returns |-> TRUE, value |-> NoLine, exit |-> "timeout",
              line |-> l1, end_time |-> e1]
        ELSE IF ~LoopGuard(l1, maxlen)
        THEN [returns |-> TRUE, value |-> FallThrough(l1), exit |-> "length",
              line |-> l1, end_time |-> e1]
        ELSE [returns |-> FALSE, value |-> NoLine, exit |-> "none",
              line |-> l1, end_time |-> e1]

\* A loop body that compares the clock with the deadline before it looks at
\* the byte.
LoopBodyDeadlineFirst(l, e, char, t1, t2, tmo, maxlen) ==
    LET e1 == DeadlineAfterRead(e, t1, tmo)
        l1 == l \o char
    IN  IF Expired(t2, e1)
        THEN [returns |-> TRUE, value |-> NoLine, exit |-> "timeout",
              line |-> l1, end_time |-> e1]
        ELSE IF char = <<NL>>
        THEN [returns |-> TRUE, value |-> Line(l1), exit |-> "newline",
              line |-> l1, end_time |-> e1]
        ELSE IF ~LoopGuard(l1, maxlen)
        THEN [returns |-> TRUE, value |-> FallThrough(l1), exit |-> "length",
              line |-> l1, end_time |-> e1]
        ELSE [returns |-> FALSE, value |-> NoLine, exit |-> "none",
              line |-> l1, end_time |-> e1]

\* One pass through the loop body with handle.readable() true: char is what
\* read(1) returned, t1 the clock when the deadline is (possibly) set, t2 the
\* clock when it is compared.  The result says whether the function returns
\* here, what it returns, and the locals after the pass.
LoopBody(l, e, char, t1, t2, tmo, maxlen) ==
    LET e1 == DeadlineAfterRead(e, t1, tmo)
        l1 == l \o char
    IN  IF char = <<NL>>
        THEN [returns |-> TRUE, value |-> Line(l1), exit |-> "newline",
              line |-> l1, end_time |-> e1]
        ELSE IF Expired(t2, e1)
        THEN [returns |-> TRUE, value |-> NoLine, exit |-> "timeout",
              line |-> l1, end_time |-> e1]
        ELSE IF ~LoopGuard(l1, maxlen)
        THEN [returns |-> TRUE, value |-> FallThrough(l1), exit |-> "length",
              line |-> l1, end_time |-> e1]
        ELSE [returns |-> FALSE, value |-> NoLine, exit |-> "none",
              line |-> l1, end_time |-> e1]

\* ------------------------------------------------------------ SerialLines
\* A generator that ends when it is handed None.
HandleLineReturnsOnNone(ret) ==
    IF ret.none THEN "return"
    ELSE IF ~EndsWithNL(ret.bytes) THEN "raise"
    ELSE "yield"

\* A generator that gives up when it is handed None.
HandleLineRaisesOnNone(ret) ==
    IF ret.none THEN "raise"
    ELSE IF ~EndsWithNL(ret.bytes) THEN "raise"
    ELSE "yield"

\* What the generator does with the value check_incomplete_line returned.
HandleLine(ret) ==
    IF ret.none THEN "continue"
    ELSE IF ~EndsWithNL(ret.bytes) THEN "raise"
    ELSE "yield"

\* A synchronisation that stops at the first chunk holding any data.
SkipDoneOnData(chunk) == Len(chunk) > 0

\* SkipUntilNewLine's loop condition, negated: the chunk ends the skipping.
SkipDone(chunk) == EndsWithNL(chunk)

\* ------------------------------------------------------------------ Init
Init ==
    /\ stream = << >>
    /\ max_line_length \in 1 .. MaxLineLen
    /\ timeout \in 0 .. MaxTimeout
    /\ phase = "skip"
    /\ line = << >>
    /\ end_time = None
    /\ now = 0
    /\ yielded = << >>
    /\ result = NoLine
    /\ exit = "none"
    /\ warned = << >>
    /\ timedOut = FALSE
    /\ lastByteAt = None
    /\ gapsOk = TRUE
    /\ late = FALSE

\* --------------------------------------------------------------- actions
\* One pass of SkipUntilNewLine's loop: a bounded readline whose chunk is
\* discarded; the generator enters its while True loop when the chunk ends
\* with a newline.
SkipRead ==
    /\ phase = "skip"
    /\ \E chunk \in Readline(ChunkSize, Room) :
          /\ stream' = stream \o chunk
          /\ phase' = IF SkipDone(chunk) THEN "acc" ELSE "skip"
    /\ UNCHANGED <<max_line_length, timeout, line, end_time, now, yielded,
                   result, exit, warned, timedOut, lastByteAt, gapsOk, late>>

\* One iteration of check_incomplete_line's loop in which handle.readable()
\* is false: the body is skipped, nothing but the clock moves.
IterateIdle ==
    /\ phase = "acc"
    /\ \E d \in 0 .. MaxStep :
          /\ now + d <= MaxTime
          /\ now' = IF end_time = None THEN now ELSE now + d
    /\ result' = NoLine
    /\ exit' = "none"
    /\ warned' = << >>
    /\ late' = FALSE
    /\ UNCHANGED <<stream, max_line_length, timeout, phase, line, end_time,
                   yielded, timedOut, lastByteAt, gapsOk>>

\* One iteration in which handle.readable() is true, together with what
\* follows without waiting: the return of check_incomplete_line (by newline,
\* by deadline, or by the loop ending) and the generator's handling of the
\* returned value, up to its yield, its raise, or the next call.
\* d1 is the time the read takes, d2 the time between the clock reading
\* that sets the deadline and the one that is compared with it.  The reading
\* that sets the deadline is the clock's origin (d1 = 0 then), and the
\* second reading is not taken after a newline (d2 = 0 then).
IterateRead ==
    /\ phase = "acc"
    /\ \E char \in ReadOne(Room) :
       \E d1 \in IF end_time = None THEN {0} ELSE 0 .. MaxStep,
          d2 \in IF char = <<NL>> THEN {0} ELSE 0 .. MaxStep :
          LET t1 == now + d1
              t2 == t1 + d2
              b  == LoopBody(line, end_time, char, t1, t2, timeout, max_line_length)
              h  == HandleLine(b.value)
          IN  /\ t2 <= MaxTime
              /\ now' = IF b.returns THEN 0 ELSE t2
              /\ stream' = stream \o char
              /\ late' = (b.returns /\ Expired(t2, b.end_time))
              /\ lastByteAt' = IF b.returns THEN None
                                ELSE IF char = << >> THEN lastByteAt ELSE t1
              /\ gapsOk' = IF b.returns /\ b.exit # "timeout" THEN TRUE
                           ELSE /\ (line = << >> \/ gapsOk)
                                /\ (char # << >> /\ line # << >>)
                                      => (t1 - lastByteAt < timeout)
              /\ IF ~b.returns
                 THEN /\ line' = b.line
                      /\ end_time' = b.end_time
                      /\ result' = NoLine
                      /\ exit' = "none"
                      /\ warned' = << >>
                      /\ UNCHANGED <<phase, yielded, timedOut>>
                 ELSE /\ result' = b.value
                      /\ exit' = b.exit
                      /\ line' = << >>
                      /\ end_time' = None
                      /\ warned' = IF b.exit = "timeout" THEN b.line ELSE << >>
                      /\ timedOut' = (timedOut \/ b.exit = "timeout")
                      /\ phase' = CASE h = "continue" -> "acc"
                                    [] h = "raise" -> "raised"
                                    [] h = "yield" -> "yielded"
                                    [] OTHER -> "returned"
                      /\ yielded' = IF h = "yield"
                                    THEN Append(yielded, rstrip(b.value.bytes))
                                    ELSE yielded
    /\ UNCHANGED <<max_line_length, timeout>>

\* The consumer asks for the next record: the generator resumes after its
\* yield and calls check_incomplete_line again.
Resume ==
    /\ phase = "yielded"
    /\ phase' = "acc"
    /\ UNCHANGED <<stream, max_line_length, timeout, line, end_time, now,
                   yielded, result, exit, warned, timedOut, lastByteAt, gapsOk, late>>

Next == SkipRead \/ IterateIdle \/ IterateRead \/ Resume

Spec == Init /\ [][Next]_vars

\* The loop of check_incomplete_line is a busy loop on one thread: it keeps
\* iterating, the handle is readable and its reads return, and the wall
\* clock moves on while it runs.  So iterations that read keep happening,
\* and each of them finds the clock advanced or makes the call return
\* (WF_vars leaves out the iterations that change nothing).
LiveSpec == Spec /\ WF_vars(IterateRead)

\* ----------------------------------------------------------- type check
TypeOK ==
    /\ Len(stream) <= MaxStream
    /\ phase \in {"skip", "acc", "yielded", "raised", "returned"}
    /\ Len(line) < max_line_length
    /\ end_time \in {None} \cup (0 .. MaxTimeout)
    /\ now \in 0 .. MaxTime

\* ------------------------------------------- what the stream consists of
\* Index of the first newline of s at or after position i; 0 when there is none.
RECURSIVE FirstNLFrom(_, _)
FirstNLFrom(s, i) ==
    IF i > Len(s) THEN 0
    ELSE IF s[i] = NL THEN i
    ELSE FirstNLFrom(s, i + 1)

FirstNL(s) == FirstNLFrom(s, 1)

\* The part of the stream that follows its first newline, which is where
\* boundary synchronisation ends.
AfterSync(s) == IF FirstNL(s) = 0 THEN << >> ELSE SubSeq(s, FirstNL(s) + 1, Len(s))

\* The complete (newline-terminated) lines of s, in order, newline included.
RECURSIVE CompleteLines(_)
CompleteLines(s) ==
    IF FirstNL(s) = 0 THEN << >>
    ELSE <<SubSeq(s, 1, FirstNL(s))>> \o CompleteLines(SubSeq(s, FirstNL(s) + 1, Len(s)))

\* The bytes of s after its last newline: a line still to be completed.
RECURSIVE Partial(_)
Partial(s) ==
    IF FirstNL(s) = 0 THEN s ELSE Partial(SubSeq(s, FirstNL(s) + 1, Len(s)))

\* Every line of s has at most m bytes including its newline.
AllFit(s, m) ==
    /\ \A i \in 1 .. Len(CompleteLines(s)) : Len(CompleteLines(s)[i]) <= m
    /\ Len(Partial(s)) < m

Stripped(ls) == [i \in 1 .. Len(ls) |-> rstrip(ls[i])]

\* ------------------------------------------- SerialLines, readline-based
\* handle.readline(size) of the definition that the timeout-aware one
\* shadows, on a handle that delivers the bytes s and whose own timeout does
\* not fire: the line up to and including the first newline if that comes
\* within size bytes, else the first size bytes; << >> while neither has
\* arrived yet and the call is still waiting.
BlockingReadline(s, size) ==
    IF FirstNL(s) # 0 /\ FirstNL(s) <= size THEN SubSeq(s, 1, FirstNL(s))
    ELSE IF Len(s) >= size THEN SubSeq(s, 1, size)
    ELSE << >>

\* The while True loop of the readline-based SerialLines over the bytes s
\* that follow boundary synchronisation: the records it yields, whether it
\* raises LineOverflowError, and how many bytes it has read by then.
RECURSIVE SerialLinesReadline(_, _)
SerialLinesReadline(s, maxlen) ==
    LET l == BlockingReadline(s, maxlen)
    IN  IF l = << >>
        THEN [yielded |-> << >>, raised |-> FALSE, read |-> 0]
        ELSE IF ~EndsWithNL(l)
        THEN [yielded |-> << >>, raised |-> TRUE, read |-> Len(l)]
        ELSE LET r == SerialLinesReadline(SubSeq(s, Len(l) + 1, Len(s)), maxlen)
             IN  [yielded |-> <<rstrip(l)>> \o r.yielded,
                  raised  |-> r.raised,
                  read    |-> Len(l) + r.read]

\* ================================================================ claims

\* C1: when the latest call of check_incomplete_line ended because
\* max_line_length bytes were accumulated with no newline among them and no
\* timeout firing, SerialLines has raised LineOverflowError (and so yields
\* nothing further).
C1_OverflowRaises == exit = "length" => phase = "raised"

\* C2: as long as no timeout has fired and every line that followed boundary
\* synchronisation has at most max_line_length bytes including its newline,
\* the records yielded so far are exactly the complete lines read after
\* synchronisation, each stripped, in stream order, none dropped, none twice.
C2_ExactLines ==
    (~timedOut /\ AllFit(AfterSync(stream), max_line_length))
        => yielded = Stripped(CompleteLines(AfterSync(stream)))

\* Two records have been yielded, the first of them not empty, with no
\* timeout and every line within max_line_length.
C2_Witness ==
    /\ ~timedOut
    /\ AllFit(AfterSync(stream), max_line_length)
    /\ Len(yielded) = 2
    /\ yielded[1] # << >>
    /\ phase = "yielded"

\* C3: the first record yielded begins at a byte that immediately follows a
\* newline byte of the stream.  (In the state right after the first yield the
\* returned line is the end of the stream read so far.)
C3_FirstRecordAfterNewline ==
    (phase = "yielded" /\ Len(yielded) = 1)
        => stream[Len(stream) - Len(result.bytes)] = NL

\* C4 as stated: however the bytes before the first newline divide into
\* newline-free garbage and a line L1, if L1 and the line L2 after it are
\* within max_line_length and no timeout fires, the first record yielded is
\* L1 stripped and the second is L2 stripped.
C4_FirstRecordIsL1 ==
    \A k \in 1 .. FirstNL(stream) - 1 :
        LET L1 == SubSeq(stream, k + 1, FirstNL(stream))
            ls == CompleteLines(AfterSync(stream))
        IN  (/\ ~timedOut
             /\ Len(L1) <= max_line_length
             /\ Len(ls) >= 1
             /\ Len(ls[1]) <= max_line_length
             /\ Len(yielded) >= 1)
                => /\ yielded[1] = rstrip(L1)
                   /\ Len(yielded) >= 2 => yielded[2] = rstrip(ls[1])

\* C4 amended: when newline-free garbage and then a line L1 precede the
\* first newline, SkipUntilNewLine discards both; if the line L2 after that
\* newline is within max_line_length and no timeout fires, the first record
\* yielded is L2 stripped.
C4_FirstRecordIsL2 ==
    LET ls == CompleteLines(AfterSync(stream))
    IN  (/\ FirstNL(stream) >= 2
         /\ ~timedOut
         /\ Len(ls) >= 1
         /\ Len(ls[1]) <= max_line_length
         /\ Len(yielded) >= 1)
            => yielded[1] = rstrip(ls[1])

\* Garbage and L1 were skipped and L2, a line with something to strip that is
\* not empty after stripping, has been yielded as the first record.
C4_Witness ==
    /\ FirstNL(stream) >= 2
    /\ ~timedOut
    /\ phase = "yielded"
    /\ Len(yielded) = 1
    /\ yielded[1] # << >>
    /\ CompleteLines(AfterSync(stream)) = <<result.bytes>>

\* The device sends nothing more.
Silent == Room = 0

C6_SmallGapsNeverDismissed ==
    ~(/\ phase = "acc"
      /\ exit = "timeout"
      /\ line = << >>
      /\ end_time = None
      /\ timeout > 0
      /\ gapsOk
      /\ Len(warned) >= 2
      /\ Len(warned) < max_line_length)

\* C6 amended: the deadline is the time of the call's first read plus
\* timeout and is never extended, so every byte of a line under accumulation
\* arrived less than timeout after that first read (the clock is measured
\* from it); a non-newline byte that arrives later is not kept, the line is
\* dismissed, however small the gaps between the bytes were.
C6_BytesArriveBeforeDeadline ==
    (phase = "acc" /\ line # << >>)
        => (lastByteAt # None /\ lastByteAt < timeout /\ end_time = timeout)

\* A line of two bytes that arrived less than the timeout of two ticks
\* apart was dismissed.
C6_Witness ==
    /\ phase = "acc"
    /\ exit = "timeout"
    /\ line = << >>
    /\ end_time = None
    /\ timeout = 2
    /\ gapsOk
    /\ Len(warned) = 2
    /\ Len(warned) < max_line_length

\* C7: the generator never completes normally.
C7_NeverReturns == phase # "returned"

\* The generator has yielded, has been handed None after a timeout and after
\* the loop of check_incomplete_line ran to its end, and is still running.
C7_Witness ==
    /\ phase = "acc"
    /\ Len(yielded) >= 1
    /\ timedOut
    /\ exit = "length"
    /\ Silent

\* C8: an iteration in which handle.readable() is false still compares the
\* clock with the deadline: when the deadline is set and has passed, the
\* function returns (the sentinel), which leaves no deadline behind.
C8_DeadlineCheckedWhenNotReadable ==
    [][(IterateIdle /\ line # << >> /\ end_time # None /\ now' >= end_time)
          => (end_time' = None /\ exit' = "timeout" /\ result'.none)]_vars

\* C9: check_incomplete_line returns None only when the deadline passed, and
\* when its loop ended by length it returned the accumulated bytes, of
\* length max_line_length and not ending in a newline.
C9_NoneOnlyOnTimeout ==
    /\ (exit # "none" /\ result.none) => exit = "timeout"
    /\ exit = "length"
          => (/\ ~result.none
              /\ Len(result.bytes) = max_line_length
              /\ ~EndsWithNL(result.bytes))

\* C10: while check_incomplete_line runs with an empty line buffer, no
\* deadline is set.
C10_NoDeadlineWhileEmpty ==
    (phase = "acc" /\ line = << >>) => end_time = None

C12_DeadlineSetAtFirstByte ==
    [][/\ (IterateRead /\ line = << >> /\ line' # << >>)
            => (end_time = None /\ end_time' = lastByteAt' + timeout)
       /\ (end_time # None /\ end_time' # None) => end_time' = end_time]_vars

\* C13: the newline test comes before the deadline test.  An iteration that
\* reads a newline returns the buffer, newline included, as a complete line
\* whatever the clock says; and an iteration that dismisses has just read a
\* byte that is not a newline.
C13_DismissalOnlyAfterByte ==
    [][IterateRead =>
         /\ (stream' = stream \o <<NL>>)
               => (exit' = "newline" /\ result' = Line(line \o <<NL>>))
         /\ (exit' = "timeout")
               => (Len(stream') = Len(stream) + 1 /\ stream'[Len(stream')] # NL)]_vars

\* C13, amended: an iteration that reads a newline returns the buffer,
\* newline included, as a complete line whatever the clock says; an
\* iteration that dismisses has just made a read that returned a byte other
\* than a newline or no byte at all.
C13_NewlineBeforeDeadline ==
    [][IterateRead =>
         /\ (stream' = stream \o <<NL>>)
               => (exit' = "newline" /\ result' = Line(line \o <<NL>>))
         /\ (exit' = "timeout")
               => \/ stream' = stream
                  \/ (Len(stream') = Len(stream) + 1 /\ stream'[Len(stream')] # NL)]_vars

\* A line of several bytes whose newline was read at or after the deadline
\* has been yielded.
C13_Witness ==
    /\ phase = "yielded"
    /\ exit = "newline"
    /\ late
    /\ timeout > 0
    /\ Len(result.bytes) >= 2

\* C14: the length bound counts the terminator.  When the buffer holds
\* max_line_length - 1 bytes (none of them dismissed, so all arrived before
\* the deadline) and the next byte is the newline, check_incomplete_line
\* returns the max_line_length bytes as a complete line and SerialLines
\* yields them stripped; the loop ends by length only after a byte other
\* than a newline has made the buffer max_line_length bytes long.
C14_FullLengthLineYielded ==
    [][IterateRead =>
         /\ (Len(line) = max_line_length - 1 /\ stream' = stream \o <<NL>>)
               => /\ exit' = "newline"
                  /\ result' = Line(line \o <<NL>>)
                  /\ phase' = "yielded"
                  /\ yielded' = Append(yielded, rstrip(line \o <<NL>>))
         /\ (exit' = "length")
               => /\ Len(line) = max_line_length - 1
                  /\ Len(stream') = Len(stream) + 1
                  /\ stream'[Len(stream')] # NL]_vars

\* A line of exactly max_line_length bytes, the largest the model has, has
\* been yielded, its newline read before the deadline.
C14_Witness ==
    /\ phase = "yielded"
    /\ exit = "newline"
    /\ ~late
    /\ ~timedOut
    /\ max_line_length = MaxLineLen
    /\ Len(result.bytes) = max_line_length
    /\ yielded = <<rstrip(result.bytes)>>

\* C15: as long as no timeout has fired, the timeout-aware SerialLines has
\* yielded exactly the records that the readline-based SerialLines yields on
\* the bytes read so far, and it has raised LineOverflowError exactly when
\* the readline-based one raises it, after the same number of bytes.
C15_SameAsReadline ==
    (phase # "skip" /\ ~timedOut)
        => LET o == SerialLinesReadline(AfterSync(stream), max_line_length)
           IN  /\ yielded = o.yielded
               /\ (phase = "raised") = o.raised
               /\ o.raised => o.read = Len(AfterSync(stream))

\* C16: SkipUntilNewLine returns at the first read whose chunk ends with a
\* newline and not before, it has then consumed the stream up to and
\* including its first newline and nothing more, and the bytes it consumed
\* are in no buffer and in no record: every buffer, accumulating or yielded,
\* is made of the latest bytes read and lies wholly after that newline.
C16_SkipStopsAtFirstNewline ==
    /\ [][SkipRead =>
            /\ (phase' = "acc") = (stream' # stream /\ EndsWithNL(stream'))
            /\ (phase' = "acc") => FirstNL(stream') = Len(stream')]_vars
    /\ [](/\ (phase = "skip") = (FirstNL(stream) = 0)
          /\ line = SubSeq(stream, Len(stream) - Len(line) + 1, Len(stream))
          /\ Len(line) <= Len(AfterSync(stream))
          /\ (phase = "yielded")
                => /\ Len(result.bytes) <= Len(AfterSync(stream))
                   /\ result.bytes = SubSeq(stream, Len(stream) - Len(result.bytes) + 1,
                                            Len(stream))
                   /\ yielded[Len(yielded)] = rstrip(result.bytes))

\* Synchronisation discarded a byte that is not a newline together with the
\* newline after it; a record that is not empty has been yielded since.
C16_Witness ==
    /\ FirstNL(stream) = 2
    /\ phase = "yielded"
    /\ yielded # << >>
    /\ yielded[1] # << >>

\* C17: a yielded record is a prefix of the newline-terminated buffer it was
\* made from, what follows the prefix in the buffer is whitespace only (the
\* newline at least), and the record does not end with whitespace: trailing
\* whitespace is removed, leading and interior bytes are kept.  A buffer
\* that is a newline alone is yielded as an empty record.
C17_RecordIsRightStripped ==
    /\ []((phase = "yielded")
            => LET b == result.bytes
                   r == yielded[Len(yielded)]
               IN  /\ EndsWithNL(b)
                   /\ Len(r) < Len(b)
                   /\ r = SubSeq(b, 1, Len(r))
                   /\ \A i \in Len(r) + 1 .. Len(b) : b[i] \in Whitespace
                   /\ r # << >> => r[Len(r)] \notin Whitespace)
    /\ [][(IterateRead /\ line = << >> /\ stream' = stream \o <<NL>>)
            => (phase' = "yielded" /\ yielded' = Append(yielded, << >>))]_vars

\* A line with a space before its newline has been yielded without either.
C17_Witness ==
    /\ phase = "yielded"
    /\ result.bytes = <<97, SP, NL>>
    /\ yielded[Len(yielded)] = <<97>>

====
